---- MODULE Spec2Model ----
(***************************************************************************)
(* A model of ai-review-pr: one process run of either subcommand,          *)
(*   ai-review  (cmd/ai-review/ai-review.go)   and                         *)
(*   errors     (cmd/raygun/errors, package analyze),                      *)
(* from main() to os.Exit.  Every interaction with the outside (git, the   *)
(* file system, the Raygun API, standard input, the claude CLI, the file   *)
(* opener, standard output) is appended to `log` in program order, with    *)
(* its outcome chosen nondeterministically.                                *)
(***************************************************************************)
EXTENDS Integers, Sequences, FiniteSets

VARIABLES
    cmd,               \* the subcommand cobra dispatches to
    flagBranch,        \* ai-review: --branch
    flagTargetBranch,  \* ai-review: --target
    raygunProject,     \* errors: --raygun-project
    raygunToken,       \* errors: --token
    envToken,          \* errors: RAYGUN_TOKEN of the environment
    branch,            \* errors: --branch
    headBranch,        \* the branch checked out in the repository
    pc,                \* position of the run
    log,               \* the interactions so far, in program order
    err,               \* the error start() returned (NoErr: nil)
    exitCode,          \* -1 while running, then the process's exit code
    branchName,        \* ai-review start(): branchName
    targetRef,         \* getDiff: targetRef
    statsOutput,       \* getDiff: statsOutput
    diffOutput,        \* getDiff: diffOutput
    diff,              \* ai-review start(): diff
    token,             \* errors start(): token
    applications,      \* chooseRaygunApplication: applications
    raygunApp,         \* errors start(): raygunApp
    errorGroups,       \* errors start(): errorGroups
    activeErrorGroups, \* errors start(): activeErrorGroups
    shown,             \* chooseErrorGroup: the msg printed for each entry
    scan,              \* the selector's fmt.Scanf: input line, success, value
    selectedErrorGroup,\* errors start(): selectedErrorGroup
    details,           \* getErrorReportDetail: details, the decoded list
    errorDetail        \* errors start(): errorDetail

flagVars   == <<cmd, flagBranch, flagTargetBranch, raygunProject, raygunToken,
                envToken, branch>>
reviewVars == <<branchName, targetRef, statsOutput, diffOutput, diff>>
errorsVars == <<token, applications, raygunApp, errorGroups, activeErrorGroups,
                shown, scan, selectedErrorGroup, details, errorDetail>>
ctlVars    == <<pc, log, err, exitCode>>
vars       == <<flagVars, headBranch, ctlVars, reviewVars, errorsVars>>

----------------------------------------------------------------------------
(* Bounds of the model *)

MaxApps == 2        \* applications the crash service returns at most
MaxGroups == 2      \* error groups the crash service returns at most
MaxInputLen == 2    \* characters of a line typed at a selector prompt

(* Program constants *)

StatusOK == 200     \* http.StatusOK
MaxVisible == 80    \* chooseErrorGroup: len(msg) > 80
TruncAt == 77       \* chooseErrorGroup: msg[:77]

----------------------------------------------------------------------------
(* Errors: fmt.Errorf builds a message; %w keeps the wrapped message in it. *)

NoErr == [ctx |-> <<>>, msg |-> "", code |-> 0, body |-> ""]

Errorf(m) == [ctx |-> <<>>, msg |-> m, code |-> 0, body |-> ""]

Wrap(c, e) == [e EXCEPT !.ctx = <<c>> \o @]

(* One entry of the log: the operation, its arguments, whether it          *)
(* succeeded and, for an HTTP exchange, the status code and the body.      *)
Ev(op, args, ok) == [op |-> op, args |-> args, ok |-> ok, code |-> 0, body |-> ""]

Println(tag) == Ev("print", <<tag>>, TRUE)

(* main(), src/main.go lines 21-24: the exit status for what Execute       *)
(* returned.                                                               *)
ExitStatus(e) == IF e # NoErr THEN 1 ELSE 0

(* start() returns e after the interactions l: cobra hands e to main(),    *)
(* which prints it to standard error and exits (src/main.go lines 17-25).  *)
Return(l, e) ==
    /\ log' = IF e # NoErr THEN Append(l, Ev("stderr", <<e.msg>>, TRUE)) ELSE l
    /\ err' = e
    /\ exitCode' = ExitStatus(e)
    /\ pc' = "exited"

(* start() goes on to the step p after the interactions l. *)
Continue(l, p) ==
    /\ log' = l
    /\ pc' = p
    /\ UNCHANGED <<err, exitCode>>

----------------------------------------------------------------------------
(* Text: a string as the sequence of its characters; a run of non-space    *)
(* characters that the program never looks into is one element.            *)

IsSpace(c) == c \in {" ", "\n", "\t"}

RECURSIVE TrimLeft(_)
TrimLeft(s) ==
    IF s = <<>> THEN <<>>
    ELSE IF IsSpace(Head(s)) THEN TrimLeft(Tail(s)) ELSE s

RECURSIVE TrimRight(_)
TrimRight(s) ==
    IF s = <<>> THEN <<>>
    ELSE IF IsSpace(s[Len(s)]) THEN TrimRight(SubSeq(s, 1, Len(s) - 1)) ELSE s

TrimSpace(s) == TrimRight(TrimLeft(s))

(* What git diff writes to its standard output. *)
GitOutputs == { <<>>, <<" ", "x", "\n">> }

Branches == {"main", "feature"}
Targets == {"main", "dev"}

OriginRef(t) == IF t = "main" THEN "origin/main" ELSE "origin/dev"

(* Values of the variables that hold nothing yet. *)
NoApp == [identifier |-> "", name |-> ""]
NoGroup == [identifier |-> "", message |-> <<>>, status |-> "", count |-> 0]
NoDetail == [message |-> ""]
NoScan == [of |-> "", input |-> <<>>, ok |-> FALSE, val |-> 0]

----------------------------------------------------------------------------
(* The state when main() starts: cobra has parsed the flags of the chosen   *)
(* subcommand; the other subcommand's flags keep their defaults.            *)

InitLocals ==
    /\ pc = IF cmd = "review" THEN "rv_start" ELSE "er_start"
    /\ log = <<>>
    /\ err = NoErr
    /\ exitCode = -1
    /\ branchName = ""
    /\ targetRef = ""
    /\ statsOutput = <<>>
    /\ diffOutput = <<>>
    /\ diff = <<>>
    /\ token = ""
    /\ applications = <<>>
    /\ raygunApp = NoApp
    /\ errorGroups = <<>>
    /\ activeErrorGroups = <<>>
    /\ shown = <<>>
    /\ scan = NoScan
    /\ selectedErrorGroup = NoGroup
    /\ details = <<>>
    /\ errorDetail = NoDetail

InitReview ==
    /\ cmd = "review"
    /\ flagBranch \in {""} \cup Branches
    /\ flagTargetBranch \in Targets
    /\ raygunProject = ""
    /\ raygunToken = ""
    /\ envToken = ""
    /\ branch = ""
    /\ headBranch \in Branches

InitErrors ==
    /\ cmd = "errors"
    /\ flagBranch = ""
    /\ flagTargetBranch = "main"
    /\ raygunProject \in {"", "A", "Z"}
    /\ raygunToken \in {"", "flag-token"}
    /\ envToken \in {"", "env-token"}
    /\ branch \in {"", "dev"}
    /\ headBranch = "main"

Init ==
    /\ InitReview \/ InitErrors
    /\ InitLocals

----------------------------------------------------------------------------
(* ai-review: start(), cmd/ai-review/ai-review.go *)

(* os.Stat's outcomes on <repo>/.git: nil, an error os.IsNotExist accepts  *)
(* (ENOENT), or any other error (EACCES, ENOTDIR, ...).                    *)
StatOutcomes == {"exists", "notexist", "error"}

StatGit(s) == Ev("stat", <<".git", s>>, s = "exists")

(* os.IsNotExist(err) on the outcome of os.Stat. *)
IsNotExist(s) == s = "notexist"

(* Lines 53-64: resolve the path, verify the repository. *)
ReviewResolveRepo ==
    /\ pc = "rv_start"
    /\ \/ Return(Append(log, Ev("abs", <<>>, FALSE)),
                 Wrap("failed to resolve repo path", Errorf("abs")))
       \/ \E s \in StatOutcomes :
            LET l1 == log \o <<Ev("abs", <<>>, TRUE), StatGit(s)>>
            IN  IF IsNotExist(s)
                THEN Return(l1, Errorf("not a git repository"))
                ELSE Continue(Append(l1, Println("Reviewing repository")),
                              "rv_branch")
    /\ UNCHANGED <<flagVars, headBranch, reviewVars, errorsVars>>

(* getCurrentBranch, lines 97-105. *)
GitRevParseHead(ok) == Ev("git", <<"rev-parse", "--abbrev-ref", "HEAD">>, ok)

(* Lines 66-75: the branch reviewed is --branch, else the current branch. *)
ReviewResolveBranch ==
    /\ pc = "rv_branch"
    /\ IF flagBranch # ""
       THEN /\ branchName' = flagBranch
            /\ Continue(Append(log, Println("Branch")), "gd_verify")
       ELSE \/ /\ branchName' = headBranch
               /\ Continue(log \o <<GitRevParseHead(TRUE), Println("Branch")>>,
                           "gd_verify")
            \/ /\ branchName' = ""
               /\ Return(Append(log, GitRevParseHead(FALSE)),
                         Wrap("failed to get current branch", Errorf("git")))
    /\ UNCHANGED <<flagVars, headBranch, targetRef, statsOutput, diffOutput,
                   diff, errorsVars>>

----------------------------------------------------------------------------
(* getDiff, lines 107-152 *)

(* The revision the diff commands compare the target with: line 122 and    *)
(* line 136 name HEAD.                                                     *)
DiffSource == "HEAD"

(* exec.Command("git", "diff", ["--stat",] targetRef+"...HEAD") and the     *)
(* retry without the three-dot syntax, exec.Command("git", "diff",         *)
(* ["--stat",] targetRef), which compares the working tree with targetRef. *)
GitDiff(stat, ref, threeDot, ok) ==
    Ev("git",
       <<"diff">> \o (IF stat THEN <<"--stat">> ELSE <<>>) \o <<ref>>
                  \o (IF threeDot THEN <<"...", DiffSource>> ELSE <<>>),
       ok)

(* Line 111: targetRef := "origin/" + targetBranch. *)
RemoteRef(t) == OriginRef(t)

(* As ChooseTargetRef, without the preference for the remote reference. *)
ChooseTargetRefBare(checkOk, t) == t

(* Lines 116-119: the reference kept after the rev-parse --verify check. *)
ChooseTargetRef(checkOk, t) == IF checkOk THEN RemoteRef(t) ELSE t

(* Lines 108-119. *)
GetDiffVerify ==
    /\ pc = "gd_verify"
    /\ \E ok \in BOOLEAN :
         /\ targetRef' = ChooseTargetRef(ok, flagTargetBranch)
         /\ Continue(log \o << Println("Getting diff"),
                               Ev("git", <<"rev-parse", "--verify",
                                           RemoteRef(flagTargetBranch)>>, ok) >>,
                     "gd_stats3")
    /\ UNCHANGED <<flagVars, headBranch, branchName, statsOutput, diffOutput,
                   diff, errorsVars>>

(* Lines 122-125: the stat summary, three-dot form. *)
GetDiffStats ==
    /\ pc = "gd_stats3"
    /\ \/ \E out \in GitOutputs :
            /\ statsOutput' = out
            /\ Continue(Append(log, GitDiff(TRUE, targetRef, TRUE, TRUE)), "gd_full3")
       \/ /\ statsOutput' = statsOutput
          /\ Continue(Append(log, GitDiff(TRUE, targetRef, TRUE, FALSE)), "gd_stats2")
    /\ UNCHANGED <<flagVars, headBranch, branchName, targetRef, diffOutput,
                   diff, errorsVars>>

(* Lines 126-132: the stat summary again, without the three-dot syntax. *)
GetDiffStatsFallback ==
    /\ pc = "gd_stats2"
    /\ \/ \E out \in GitOutputs :
            /\ statsOutput' = out
            /\ Continue(Append(log, GitDiff(TRUE, targetRef, FALSE, TRUE)), "gd_full3")
       \/ /\ statsOutput' = statsOutput
          /\ Return(Append(log, GitDiff(TRUE, targetRef, FALSE, FALSE)),
                    Wrap("failed to get diff",
                         Wrap("failed to get diff stats", Errorf("git"))))
    /\ UNCHANGED <<flagVars, headBranch, branchName, targetRef, diffOutput,
                   diff, errorsVars>>

(* Line 150: fmt.Sprintf("=== DIFF STATS ===\n%s\n\n=== FULL DIFF ===\n%s"). *)
CombineDiff(stats, full) ==
    <<"=== DIFF STATS ===", "\n">> \o stats
        \o <<"\n", "\n", "=== FULL DIFF ===", "\n">> \o full

(* Line 83: strings.TrimSpace(diff) == "". *)
NoDifferences(d) == TrimSpace(d) = <<>>

(* getDiff returns (lines 149-151) and start() goes on (lines 78-87). *)
GetDiffReturn(l, full) ==
    /\ diffOutput' = full
    /\ diff' = CombineDiff(statsOutput, full)
    /\ IF NoDifferences(diff')
       THEN Return(Append(l, Println("No differences found between branches.")),
                   NoErr)
       ELSE Continue(l, "rv_launch")

(* Lines 136-139: the full diff, three-dot form. *)
GetDiffFull ==
    /\ pc = "gd_full3"
    /\ \/ \E out \in GitOutputs :
            GetDiffReturn(Append(log, GitDiff(FALSE, targetRef, TRUE, TRUE)), out)
       \/ /\ Continue(Append(log, GitDiff(FALSE, targetRef, TRUE, FALSE)), "gd_full2")
          /\ UNCHANGED <<diffOutput, diff>>
    /\ UNCHANGED <<flagVars, headBranch, branchName, targetRef, statsOutput,
                   errorsVars>>

(* Lines 140-147: the full diff again, without the three-dot syntax. *)
GetDiffFullFallback ==
    /\ pc = "gd_full2"
    /\ \/ \E out \in GitOutputs :
            GetDiffReturn(Append(log, GitDiff(FALSE, targetRef, FALSE, TRUE)), out)
       \/ /\ Return(Append(log, GitDiff(FALSE, targetRef, FALSE, FALSE)),
                    Wrap("failed to get diff",
                         Wrap("failed to get diff", Errorf("git"))))
          /\ UNCHANGED <<diffOutput, diff>>
    /\ UNCHANGED <<flagVars, headBranch, branchName, targetRef, statsOutput,
                   errorsVars>>

----------------------------------------------------------------------------
(* launchClaudeReview, lines 162-206 *)

RenderPrompt(ok) == Ev("template", <<"prompt">>, ok)

(* exec.Command("claude", "--model="+model, "--dangerously-skip-permissions", *)
(* "-p", prompt) and cmd.Run().                                              *)
RunClaude(model, ok) ==
    Ev("claude", <<"--model=", model, "--dangerously-skip-permissions", "-p">>, ok)

(* Lines 163-194: render the prompt, run claude and wait for it. *)
LaunchClaudeReview ==
    /\ pc = "rv_launch"
    /\ LET l1 == Append(log, Println("Launching Claude Code for review..."))
       IN  \/ Return(Append(l1, RenderPrompt(FALSE)),
                     Wrap("failed to launch Claude review",
                          Errorf("failed to render prompt template")))
           \/ Return(l1 \o <<RenderPrompt(TRUE), RunClaude("Sonnet", FALSE)>>,
                     Wrap("failed to launch Claude review",
                          Wrap("failed to run claude", Errorf("exit"))))
           \/ Continue(l1 \o <<RenderPrompt(TRUE), RunClaude("Sonnet", TRUE)>>,
                       "rv_open")
    /\ UNCHANGED <<flagVars, headBranch, reviewVars, errorsVars>>

(* As PublishOutput, running the opener whatever os.Stat returned. *)
PublishOutputAlways(file, exists, openOk, warning) ==
    <<Ev("stat", <<file, IF exists THEN "exists" ELSE "notexist">>, exists),
      Println("Opening file"), Ev("open", <<file>>, openOk)>>
    \o (IF openOk THEN <<>> ELSE <<Println(warning)>>)

(* os.Stat on the output file and what follows from it: the opener runs    *)
(* when the error is nil, and a warning is printed when the opener fails.  *)
PublishOutput(file, exists, openOk, warning) ==
    <<Ev("stat", <<file, IF exists THEN "exists" ELSE "notexist">>, exists)>>
    \o (IF exists
        THEN <<Println("Opening file"), Ev("open", <<file>>, openOk)>>
             \o (IF openOk THEN <<>> ELSE <<Println(warning)>>)
        ELSE <<>>)

(* Lines 196-205, then start() lines 93-94. *)
OpenReviewFile ==
    /\ pc = "rv_open"
    /\ \E exists \in BOOLEAN, openOk \in BOOLEAN :
         /\ exists \/ openOk
         /\ Return(log \o PublishOutput("Review.md", exists, openOk,
                                        "Warning: could not open review file")
                       \o <<Println("Claude code review complete.")>>,
                   NoErr)
    /\ UNCHANGED <<flagVars, headBranch, reviewVars, errorsVars>>

----------------------------------------------------------------------------
(* errors: the data the crash service and the user can supply *)

AppNames == {"A", "B"}

AppIdOf(n) == IF n = "A" THEN "app-A" ELSE "app-B"

App(n) == [identifier |-> AppIdOf(n), name |-> n]

(* The lists GET /applications can decode to. *)
AppLists ==
    UNION { [1..n -> {App(x) : x \in AppNames}] : n \in 0..MaxApps }

(* A string of n ASCII bytes. *)
Ascii(n) == [i \in 1..n |-> "a"]

(* Messages as Go holds them, byte by byte: "a" an ASCII byte, "L2" the    *)
(* lead byte of a two-byte character, "C" a continuation byte.             *)
(* One of 81 bytes whose bytes 77 and 78 are one character; a short one;   *)
(* one of 81 ASCII bytes; one of 41 two-byte characters (82 bytes).        *)
Messages ==
    << Ascii(76) \o <<"L2", "C">> \o Ascii(3),
       Ascii(3),
       Ascii(81),
       [i \in 1..82 |-> IF i % 2 = 1 THEN "L2" ELSE "C"] >>

GroupIds == <<"g1", "g2", "g3", "g4">>

Statuses == {"active", "resolved"}

(* The i-th error group of a response. *)
Group(i, st) ==
    [identifier |-> GroupIds[i],
     message |-> Messages[((i - 1) % Len(Messages)) + 1],
     status |-> st,
     count |-> i]

(* The lists GET /applications/{id}/error-groups can decode to. *)
GroupLists ==
    UNION { { [i \in 1..n |-> Group(i, f[i])] : f \in [1..n -> Statuses] }
            : n \in 0..MaxGroups }

(* The lists GET .../errors?count=1 can decode to. *)
DetailLists ==
    { <<>>, <<[message |-> "d1"]>>, <<[message |-> "d2"], [message |-> "d1"]>> }

(* An HTTP exchange: whether a response arrived, its status code, its body *)
(* and whether the body decodes into the expected JSON list.               *)
Responses ==
    { [net |-> FALSE, code |-> 0, body |-> "", json |-> FALSE],
      [net |-> TRUE, code |-> 204, body |-> "no content", json |-> FALSE],
      [net |-> TRUE, code |-> 401, body |-> "denied", json |-> FALSE],
      [net |-> TRUE, code |-> StatusOK, body |-> "garbage", json |-> FALSE],
      [net |-> TRUE, code |-> StatusOK, body |-> "list", json |-> TRUE] }

(* The characters of a line typed at a prompt, and the lines. *)
Chars == {"0", "1", "2", "3", "-", "x"}

Inputs == UNION { [1..n -> Chars] : n \in 0..MaxInputLen }

----------------------------------------------------------------------------
(* fmt.Scanf("%d", &selection), lines 180 and 257 *)

IsDigit(c) == c \in {"0", "1", "2", "3", "4", "5", "6", "7", "8", "9"}

DigitVal(c) ==
    CASE c = "0" -> 0 [] c = "1" -> 1 [] c = "2" -> 2 [] c = "3" -> 3
      [] c = "4" -> 4 [] c = "5" -> 5 [] c = "6" -> 6 [] c = "7" -> 7
      [] c = "8" -> 8 [] c = "9" -> 9

(* The digits s starts with. *)
RECURSIVE DigitPrefix(_)
DigitPrefix(s) ==
    IF s # <<>> /\ IsDigit(Head(s))
    THEN <<Head(s)>> \o DigitPrefix(Tail(s))
    ELSE <<>>

(* strconv.ParseInt of a digit token, base 10. *)
RECURSIVE ParseDigits(_)
ParseDigits(d) ==
    IF d = <<>> THEN 0
    ELSE 10 * ParseDigits(SubSeq(d, 1, Len(d) - 1)) + DigitVal(d[Len(d)])

(* The %d verb: skip blanks, accept one sign, scan the digits that follow  *)
(* (an error when there are none) and convert them; what follows the       *)
(* digits is not looked at.  selection stays 0 when the scan fails.        *)
ScanfD(line) ==
    LET s == TrimLeft(line)
        signed == s # <<>> /\ Head(s) \in {"+", "-"}
        rest == IF signed THEN Tail(s) ELSE s
        tok == DigitPrefix(rest)
        n == ParseDigits(tok)
    IN  IF tok = <<>>
        THEN [input |-> line, ok |-> FALSE, val |-> 0]
        ELSE [input |-> line, ok |-> TRUE,
              val |-> IF signed /\ Head(s) = "-" THEN 0 - n ELSE n]

(* The selector `of` has read `line`. *)
Scanned(of, line) ==
    LET r == ScanfD(line)
    IN  [of |-> of, input |-> r.input, ok |-> r.ok, val |-> r.val]

ReadStdin(sc) == Ev("stdin", <<"%d">>, sc.ok)

(* As OutOfRange, with the upper comparison off by one. *)
OutOfRangeOffByOne(selection, length) == selection < 1 \/ selection >= length

(* Lines 184 and 261: selection < 1 || selection > len(list). *)
OutOfRange(selection, length) == selection < 1 \/ selection > length

(* What a selector does with the line read: the error it returns, if any. *)
SelectionError(sc, length) ==
    IF ~sc.ok THEN Wrap("invalid selection", Errorf("scan"))
    ELSE IF OutOfRange(sc.val, length) THEN Errorf("selection out of range")
    ELSE NoErr

(* As SelectorFail, asking again instead of returning the error. *)
SelectorRetry(l, e) == Continue(l, pc)

(* Lines 181 and 185 (258 and 262): the selector returns the error of the  *)
(* one line it read, and start() returns it.                               *)
SelectorFail(l, e) == Return(l, e)

----------------------------------------------------------------------------
(* The three calls to the crash service, lines 192-241 and 269-296 *)

HttpGet(path, tok, resp) ==
    [op |-> "http",
     args |-> path \o <<"Authorization: Bearer", tok>>,
     ok |-> resp.net /\ resp.code = StatusOK /\ resp.json,
     code |-> resp.code,
     body |-> resp.body]

(* As BadStatus, taking only client and server errors for failures. *)
BadStatusFrom400(code) == code >= 400

(* response.StatusCode() != http.StatusOK, lines 204, 230 and 281. *)
BadStatus(code) == code # StatusOK

(* As HttpError, without the check of json.Unmarshal's error. *)
HttpErrorIgnoringDecode(what, resp) ==
    IF ~resp.net
    THEN Wrap(what, Errorf("transport"))
    ELSE IF BadStatus(resp.code)
    THEN [ctx |-> <<>>, msg |-> "raygun API returned status",
          code |-> resp.code, body |-> resp.body]
    ELSE NoErr

(* The error a call returns for a response, NoErr when it decodes the list. *)
HttpError(what, resp) ==
    IF ~resp.net
    THEN Wrap(what, Errorf("transport"))
    ELSE IF BadStatus(resp.code)
    THEN [ctx |-> <<>>, msg |-> "raygun API returned status",
          code |-> resp.code, body |-> resp.body]
    ELSE IF ~resp.json
    THEN Wrap(what, Errorf("json"))
    ELSE NoErr

ApplicationsPath == <<"/applications?count=", "20">>

ErrorGroupsPath(app) == <<"/applications/", app.identifier, "/error-groups">>

ErrorDetailPath(appId, groupId) ==
    <<"/applications/", appId, "/error-groups/", groupId, "/errors?count=1">>

----------------------------------------------------------------------------
(* errors: start(), lines 69-149 *)

(* Lines 71-74: the flag, else the environment. *)
ResolveToken(flag, env) == IF flag = "" THEN env ELSE flag

(* Lines 70-88. *)
ErrorsResolveRepo ==
    /\ pc = "er_start"
    /\ token' = ResolveToken(raygunToken, envToken)
    /\ IF token' = ""
       THEN Return(log, Errorf("raygun token required"))
       ELSE \/ Return(Append(log, Ev("abs", <<>>, FALSE)),
                      Wrap("failed to resolve repo path", Errorf("abs")))
            \/ \E s \in StatOutcomes :
                 LET l1 == log \o <<Ev("abs", <<>>, TRUE), StatGit(s)>>
                 IN  IF IsNotExist(s)
                     THEN Return(l1, Errorf("not a git repository"))
                     ELSE Continue(l1, "er_apps")
    /\ UNCHANGED <<flagVars, headBranch, reviewVars, applications, raygunApp,
                   errorGroups, activeErrorGroups, shown, scan,
                   selectedErrorGroup, details, errorDetail>>

(* As LoFind, comparing the identifier with the name asked for. *)
RECURSIVE LoFindByIdentifier(_, _, _)
LoFindByIdentifier(apps, name, i) ==
    IF i > Len(apps) THEN 0
    ELSE IF apps[i].identifier = name THEN i
    ELSE LoFindByIdentifier(apps, name, i + 1)

(* lo.Find: the index of the first application of that name, 0 if none. *)
RECURSIVE LoFind(_, _, _)
LoFind(apps, name, i) ==
    IF i > Len(apps) THEN 0
    ELSE IF apps[i].name = name THEN i
    ELSE LoFind(apps, name, i + 1)

(* start() line 96. *)
SelectedProject == Println("Selected raygun project")

(* chooseRaygunApplication up to its prompt, lines 152-179 (and start()    *)
(* lines 91-96 when it returns here).                                      *)
ChooseRaygunApplication ==
    /\ pc = "er_apps"
    /\ \E resp \in Responses, apps \in AppLists :
         LET e == HttpError("failed to fetch applications", resp)
             l1 == Append(log, HttpGet(ApplicationsPath, token, resp))
             found == LoFind(apps, raygunProject, 1)
         IN  /\ (e # NoErr) => apps = <<>>
             /\ applications' = apps
             /\ IF e # NoErr
                THEN /\ raygunApp' = raygunApp
                     /\ Return(l1, Wrap("error selecting project",
                                        Wrap("failed to fetch applications", e)))
                ELSE IF Len(apps) = 0
                THEN /\ raygunApp' = raygunApp
                     /\ Return(l1, Wrap("error selecting project",
                                        Errorf("no applications found")))
                ELSE IF raygunProject # ""
                THEN IF found # 0
                     THEN /\ raygunApp' = apps[found]
                          /\ Continue(Append(l1, SelectedProject), "er_groups")
                     ELSE /\ raygunApp' = raygunApp
                          /\ Return(l1, Wrap("error selecting project",
                                             Errorf("raygun project not found")))
                ELSE /\ raygunApp' = raygunApp
                     /\ Continue(l1 \o << Println("Available Raygun projects:"),
                                          Println("Select project number: ") >>,
                                 "er_app_read")
    /\ UNCHANGED <<flagVars, headBranch, reviewVars, token, errorGroups,
                   activeErrorGroups, shown, scan, selectedErrorGroup,
                   details, errorDetail>>

(* chooseRaygunApplication from its read of standard input, lines 178-188. *)
ChooseRaygunApplicationRead ==
    /\ pc = "er_app_read"
    /\ \E line \in Inputs :
         LET sc == Scanned("project", line)
             e == SelectionError(sc, Len(applications))
             l1 == Append(log, ReadStdin(sc))
         IN  /\ scan' = sc
             /\ IF e # NoErr
                THEN /\ raygunApp' = raygunApp
                     /\ SelectorFail(l1, Wrap("error selecting project", e))
                ELSE /\ raygunApp' = applications[sc.val]
                     /\ Continue(Append(l1, SelectedProject), "er_groups")
    /\ UNCHANGED <<flagVars, headBranch, reviewVars, token, applications,
                   errorGroups, activeErrorGroups, shown, selectedErrorGroup,
                   details, errorDetail>>

(* As IsActive, keeping every group that has a status. *)
IsActiveAnyStatus(errorGroup) == errorGroup.status # ""

(* lo.Filter with the predicate of line 111, in the order of the list. *)
IsActive(errorGroup) == errorGroup.status = "active"

RECURSIVE LoFilter(_)
LoFilter(groups) ==
    IF groups = <<>> THEN <<>>
    ELSE (IF IsActive(Head(groups)) THEN <<Head(groups)>> ELSE <<>>)
         \o LoFilter(Tail(groups))

(* Lines 248-251: the message as chooseErrorGroup prints it. *)
Ellipsis == <<".", ".", ".">>

Truncate(msg) ==
    IF Len(msg) > MaxVisible THEN SubSeq(msg, 1, TruncAt) \o Ellipsis ELSE msg

(* listErrorGroups (lines 218-241), start() lines 98-117 and               *)
(* chooseErrorGroup up to its prompt (lines 244-256).  The frame of        *)
(* chooseRaygunApplication, with its applications and its scan, is gone.   *)
ListErrorGroups ==
    /\ pc = "er_groups"
    /\ applications' = <<>>
    /\ scan' = NoScan
    /\ \E resp \in Responses, groups \in GroupLists :
         LET e == HttpError("failed to fetch error groups", resp)
             l1 == Append(log, HttpGet(ErrorGroupsPath(raygunApp), token, resp))
             active == LoFilter(groups)
         IN  /\ (e # NoErr) => groups = <<>>
             /\ errorGroups' = groups
             /\ IF e # NoErr
                THEN /\ UNCHANGED <<activeErrorGroups, shown>>
                     /\ Return(l1, Wrap("error fetching crash reports", e))
                ELSE IF Len(groups) = 0
                THEN /\ UNCHANGED <<activeErrorGroups, shown>>
                     /\ Return(Append(l1, Println("No crash reports found for this project.")),
                               NoErr)
                ELSE IF Len(active) = 0
                THEN /\ activeErrorGroups' = active
                     /\ shown' = shown
                     /\ Return(Append(l1, Println("No active crash reports found for this project.")),
                               NoErr)
                ELSE /\ activeErrorGroups' = active
                     /\ shown' = [i \in 1..Len(active) |-> Truncate(active[i].message)]
                     /\ Continue(l1 \o << Println("Active error groups:"),
                                          Println("Select error group number: ") >>,
                                 "er_group_read")
    /\ UNCHANGED <<flagVars, headBranch, reviewVars, token, raygunApp,
                   selectedErrorGroup, details, errorDetail>>

(* chooseErrorGroup from its read of standard input, lines 255-265, and    *)
(* start() lines 121-125.                                                  *)
ChooseErrorGroupRead ==
    /\ pc = "er_group_read"
    /\ \E line \in Inputs :
         LET sc == Scanned("group", line)
             e == SelectionError(sc, Len(activeErrorGroups))
             l1 == Append(log, ReadStdin(sc))
         IN  /\ scan' = sc
             /\ IF e # NoErr
                THEN /\ selectedErrorGroup' = selectedErrorGroup
                     /\ SelectorFail(l1, Wrap("error selecting crash", e))
                ELSE /\ selectedErrorGroup' = activeErrorGroups[sc.val]
                     /\ Continue(Append(l1, Println("Analyzing crash")), "er_detail")
    /\ UNCHANGED <<flagVars, headBranch, reviewVars, token, applications,
                   raygunApp, errorGroups, activeErrorGroups, shown,
                   details, errorDetail>>

(* As FirstDetail, taking the last record of the list. *)
LastDetail(list) == list[Len(list)]

(* Line 295: return &details[0]. *)
FirstDetail(list) == list[1]

(* getErrorReportDetail (lines 269-296), start() lines 127-134.  The frame *)
(* of chooseErrorGroup, and its scan, are gone.                            *)
GetErrorReportDetail ==
    /\ pc = "er_detail"
    /\ scan' = NoScan
    /\ \E resp \in Responses, list \in DetailLists :
         LET e == HttpError("failed to fetch error detail", resp)
             l1 == Append(log, HttpGet(ErrorDetailPath(raygunApp.identifier,
                                           selectedErrorGroup.identifier),
                                       token, resp))
         IN  /\ (e # NoErr) => list = <<>>
             /\ details' = list
             /\ IF e # NoErr
                THEN /\ errorDetail' = errorDetail
                     /\ Return(l1, Wrap("error fetching crash details", e))
                ELSE IF Len(list) = 0
                THEN /\ errorDetail' = errorDetail
                     /\ Return(l1, Wrap("error fetching crash details",
                                        Errorf("no error details found")))
                ELSE /\ errorDetail' = FirstDetail(list)
                     /\ Continue(l1, IF branch # "" THEN "co_fetch" ELSE "er_launch")
    /\ UNCHANGED <<flagVars, headBranch, reviewVars, token, applications,
                   raygunApp, errorGroups, activeErrorGroups, shown,
                   selectedErrorGroup>>

----------------------------------------------------------------------------
(* checkoutBranch, lines 298-319 *)

(* What checkoutBranch prints when git fetch or git pull fails: nothing,   *)
(* the error of fetchCmd.Run() and pullCmd.Run() is dropped.               *)
BestEffortReport(what, ok) == <<>>

(* Lines 299-302: fetchCmd.Run(), "Ignore fetch errors". *)
CheckoutFetch ==
    /\ pc = "co_fetch"
    /\ \E ok \in BOOLEAN :
         Continue(Append(log, Ev("git", <<"fetch", "--all">>, ok))
                      \o BestEffortReport("fetch", ok),
                  "co_checkout")
    /\ UNCHANGED <<flagVars, headBranch, reviewVars, errorsVars>>

(* Lines 304-310: git checkout <branch>. *)
CheckoutBranch ==
    /\ pc = "co_checkout"
    /\ \/ /\ headBranch' = branch
          /\ Continue(Append(log, Ev("git", <<"checkout", branch>>, TRUE)), "co_pull")
       \/ /\ headBranch' = headBranch
          /\ Return(Append(log, Ev("git", <<"checkout", branch>>, FALSE)),
                    Wrap("error checking out branch",
                         Wrap("failed to checkout branch", Errorf("git"))))
    /\ UNCHANGED <<flagVars, reviewVars, errorsVars>>

(* Lines 312-318: pullCmd.Run(), "Ignore pull errors". *)
CheckoutPull ==
    /\ pc = "co_pull"
    /\ \E ok \in BOOLEAN :
         Continue(Append(log, Ev("git", <<"pull">>, ok))
                      \o BestEffortReport("pull", ok)
                      \o <<Println("Checked out branch")>>,
                  "er_launch")
    /\ UNCHANGED <<flagVars, headBranch, reviewVars, errorsVars>>

----------------------------------------------------------------------------
(* launchClaudeErrorAnalysis, lines 328-374 *)

(* Lines 329-362: render the prompt, run claude and wait for it. *)
LaunchClaudeErrorAnalysis ==
    /\ pc = "er_launch"
    /\ LET l1 == Append(log, Println("Launching Claude Code for crash analysis..."))
       IN  \/ Return(Append(l1, RenderPrompt(FALSE)),
                     Wrap("error launching Claude analysis",
                          Errorf("failed to render prompt template")))
           \/ Return(l1 \o <<RenderPrompt(TRUE), RunClaude("Haiku", FALSE)>>,
                     Wrap("error launching Claude analysis",
                          Wrap("failed to run claude", Errorf("exit"))))
           \/ Continue(l1 \o <<RenderPrompt(TRUE), RunClaude("Haiku", TRUE)>>,
                       "er_open")
    /\ UNCHANGED <<flagVars, headBranch, reviewVars, errorsVars>>

(* Lines 364-373, then start() lines 147-148. *)
OpenErrorFile ==
    /\ pc = "er_open"
    /\ \E exists \in BOOLEAN, openOk \in BOOLEAN :
         /\ exists \/ openOk
         /\ Return(log \o PublishOutput("RaygunError.md", exists, openOk,
                                        "Warning: could not open output file")
                       \o <<Println("Claude error analysis complete")>>,
                   NoErr)
    /\ UNCHANGED <<flagVars, headBranch, reviewVars, errorsVars>>

----------------------------------------------------------------------------

Next ==
    \/ ReviewResolveRepo
    \/ ReviewResolveBranch
    \/ GetDiffVerify
    \/ GetDiffStats
    \/ GetDiffStatsFallback
    \/ GetDiffFull
    \/ GetDiffFullFallback
    \/ LaunchClaudeReview
    \/ OpenReviewFile
    \/ ErrorsResolveRepo
    \/ ChooseRaygunApplication
    \/ ChooseRaygunApplicationRead
    \/ ListErrorGroups
    \/ ChooseErrorGroupRead
    \/ GetErrorReportDetail
    \/ CheckoutFetch
    \/ CheckoutBranch
    \/ CheckoutPull
    \/ LaunchClaudeErrorAnalysis
    \/ OpenErrorFile

Spec == Init /\ [][Next]_vars

----------------------------------------------------------------------------
(* Properties *)

(* The steps of the run: its interactions other than what it prints. *)
Steps == SelectSeq(log, LAMBDA e : e.op \notin {"print", "stderr"})

IsHttp(e, part) == e.op = "http" /\ e.args[3] = part

(* Nothing but printing follows the i-th interaction. *)
NoLaterStep(i) ==
    \A j \in (i + 1)..Len(log) : log[j].op \in {"print", "stderr"}

HasEvent(op) == \E i \in 1..Len(log) : log[i].op = op

Printed(tag) == \E i \in 1..Len(log) : log[i] = Println(tag)

(* line reads as the integer k: an optional minus sign and decimal digits, *)
(* up to the first character that is no digit.                             *)
ParsesAs(line, k) ==
    \E n \in 1..Len(line) :
        LET numeral == SubSeq(line, 1, n)
            neg == numeral[1] = "-"
            digs == IF neg THEN Tail(numeral) ELSE numeral
        IN  /\ digs # <<>>
            /\ \A i \in 1..Len(digs) : IsDigit(digs[i])
            /\ n < Len(line) => ~IsDigit(line[n + 1])
            /\ k = (IF neg THEN 0 - ParseDigits(digs) ELSE ParseDigits(digs))

(* The list the selector that has just read presented, what it selected,   *)
(* and whether start() went on with the selection.                         *)
Presented == IF scan.of = "project" THEN applications ELSE activeErrorGroups

Selected == IF scan.of = "project" THEN raygunApp ELSE selectedErrorGroup

NothingSelected == IF scan.of = "project" THEN raygunApp = NoApp
                   ELSE selectedErrorGroup = NoGroup

SelectionAccepted ==
    /\ err = NoErr
    /\ pc = IF scan.of = "project" THEN "er_groups" ELSE "er_detail"

(* C1: in both selectors, for a presented list of length N the selection   *)
(* is accepted if and only if the line read parses as an integer k with    *)
(* 1 <= k <= N, and then the k-th item is the one selected; every other    *)
(* integer and every line that is no number makes the selector return an   *)
(* error, nothing is selected and the run exits 1.                         *)
C1_SelectorAcceptsExactlyRange ==
    scan.of # "" =>
        LET N == Len(Presented)
            inRange == \E k \in 1..N : ParsesAs(scan.input, k)
        IN  /\ SelectionAccepted <=> inRange
            /\ inRange => Selected = Presented[scan.val]
                          /\ ParsesAs(scan.input, scan.val)
            /\ ~inRange => /\ NothingSelected
                           /\ pc = "exited"
                           /\ exitCode = 1
                           /\ err.msg \in {"scan", "selection out of range"}

(* C1 witness: "2" typed at the error-group prompt of a two-item list      *)
(* selects the second item.                                                *)
C1_Witness ==
    /\ scan.of = "group"
    /\ scan.input = <<"2">>
    /\ Len(activeErrorGroups) = 2
    /\ selectedErrorGroup = activeErrorGroups[2]
    /\ pc = "er_detail"

(* The positions of the active groups in what the crash service returned. *)
ActiveIdx == {i \in 1..Len(errorGroups) : errorGroups[i].status = "active"}

(* The j-th smallest position of ActiveIdx. *)
NthActive(j) == CHOOSE i \in ActiveIdx : Cardinality({k \in ActiveIdx : k <= i}) = j

GroupsListed == \E i \in 1..Len(log) : IsHttp(log[i], "/error-groups") /\ log[i].ok

(* C2: the list handed to chooseErrorGroup is exactly the sub-list of the  *)
(* returned groups whose status is "active", in the original order; when   *)
(* that sub-list is empty the run returns success with no selection        *)
(* prompt, no crash-detail request and no assistant.                       *)
C2_OnlyActiveGroupsOffered ==
    GroupsListed =>
        IF ActiveIdx = {}
        THEN /\ pc = "exited"
             /\ exitCode = 0
             /\ err = NoErr
             /\ shown = <<>>
             /\ \A i \in 1..Len(log) :
                    IsHttp(log[i], "/error-groups") =>
                        \A j \in (i + 1)..Len(log) : log[j].op = "print"
             /\ ~Printed("Select error group number: ")
        ELSE /\ Len(activeErrorGroups) = Cardinality(ActiveIdx)
             /\ \A j \in 1..Len(activeErrorGroups) :
                    activeErrorGroups[j] = errorGroups[NthActive(j)]
             /\ Len(shown) = Len(activeErrorGroups)
             /\ Printed("Select error group number: ")

(* C2 witness: of two groups the first is resolved and only the second is  *)
(* offered.                                                                *)
C2_Witness ==
    /\ pc = "er_group_read"
    /\ Len(errorGroups) = 2
    /\ errorGroups[1].status = "resolved"
    /\ activeErrorGroups = <<errorGroups[2]>>

IsDiffCmd(e) == e.op = "git" /\ e.args[1] = "diff"

IsStatCmd(e) == e.args[2] = "--stat"

IsThreeDot(e) == e.args[Len(e.args) - 1] = "..."

DiffRef(e) == IF IsStatCmd(e) THEN e.args[3] ELSE e.args[2]

IsVerify(e) == e.op = "git" /\ e.args[1] = "rev-parse" /\ e.args[2] = "--verify"

DiffCollected ==
    \E i \in 1..Len(log) : IsDiffCmd(log[i]) /\ ~IsStatCmd(log[i]) /\ log[i].ok

(* C3: in the review pipeline, whenever both git diff outputs (stat and    *)
(* full) are empty, the run prints the "no differences" message and exits  *)
(* 0 without invoking the assistant.                                       *)
C3_EmptyDiffSkipsAssistant ==
    (cmd = "review" /\ DiffCollected /\ statsOutput = <<>> /\ diffOutput = <<>>) =>
        /\ pc = "exited"
        /\ exitCode = 0
        /\ Printed("No differences found between branches.")
        /\ ~HasEvent("claude")

GetDiffFailed == err.ctx # <<>> /\ err.ctx[1] = "failed to get diff"

(* C4: every diff command of getDiff uses origin/<target> when the         *)
(* reference check on origin/<target> succeeded and the bare <target> when *)
(* it failed; a two-dot diff is run only right after the three-dot diff of *)
(* the same kind failed; and getDiff returns an error only when the last   *)
(* two commands were a failed three-dot diff and the failed two-dot diff   *)
(* of the same kind.                                                       *)
C4_TargetRefAndDiffFallback ==
    /\ \A i \in 1..Len(log) :
         IsDiffCmd(log[i]) =>
            /\ \E v \in 1..(i - 1) :
                  /\ IsVerify(log[v])
                  /\ log[v].args[3] = OriginRef(flagTargetBranch)
                  /\ DiffRef(log[i]) = IF log[v].ok THEN OriginRef(flagTargetBranch)
                                       ELSE flagTargetBranch
            /\ ~IsThreeDot(log[i]) =>
                  /\ IsDiffCmd(log[i - 1])
                  /\ IsThreeDot(log[i - 1])
                  /\ ~log[i - 1].ok
                  /\ IsStatCmd(log[i - 1]) = IsStatCmd(log[i])
                  /\ DiffRef(log[i - 1]) = DiffRef(log[i])
    /\ GetDiffFailed =>
         LET n == Len(Steps)
         IN  /\ n >= 2
             /\ IsDiffCmd(Steps[n]) /\ ~IsThreeDot(Steps[n]) /\ ~Steps[n].ok
             /\ IsDiffCmd(Steps[n - 1]) /\ IsThreeDot(Steps[n - 1]) /\ ~Steps[n - 1].ok
             /\ IsStatCmd(Steps[n - 1]) = IsStatCmd(Steps[n])

(* C4 witness: the check on origin/<target> succeeded, the three-dot full  *)
(* diff failed, the two-dot one failed too and getDiff returned the error. *)
C4_Witness ==
    /\ GetDiffFailed
    /\ targetRef = OriginRef(flagTargetBranch)
    /\ ~IsStatCmd(Steps[Len(Steps)])
    /\ DiffRef(Steps[Len(Steps)]) = OriginRef(flagTargetBranch)

(* C5: for each of the three crash-service calls, a response whose status  *)
(* is not 200 makes the call return an error naming the status code and    *)
(* the body; the run exits 1 and performs no later step.                   *)
C5_Non200IsFatal ==
    \A i \in 1..Len(log) :
        (log[i].op = "http" /\ log[i].code \notin {0, StatusOK}) =>
            /\ pc = "exited"
            /\ exitCode = 1
            /\ err.msg = "raygun API returned status"
            /\ err.code = log[i].code
            /\ err.body = log[i].body
            /\ NoLaterStep(i)
            /\ log[Len(log)].op = "stderr"

(* C5 witness: the crash-detail request is answered 401 and the run has    *)
(* exited 1 with that status in its error.                                 *)
C5_Witness ==
    /\ pc = "exited"
    /\ Len(Steps) > 0
    /\ IsHttp(Steps[Len(Steps)], "/error-groups/")
    /\ Steps[Len(Steps)].code = 401
    /\ err.code = 401

IsStatGit(e) == e.op = "stat" /\ e.args[1] = ".git"

(* C6: in both pipelines the run proceeds past the repository check if and *)
(* only if the check found the .git entry; for every other outcome of the  *)
(* check (entry absent, or the check itself failing) the run fails with    *)
(* the not-a-git-repository error and no later step runs.                  *)
C6_RepoCheckIffGitEntry ==
    \A i \in 1..Len(Steps) :
        IsStatGit(Steps[i]) =>
            IF Steps[i].args[2] = "exists"
            THEN err.msg # "not a git repository"
            ELSE /\ i = Len(Steps)
                 /\ pc = "exited"
                 /\ exitCode = 1
                 /\ err.msg = "not a git repository"

(* The characters of a byte string, and whether it is well-formed: every   *)
(* lead byte is followed by its continuation byte, and every continuation  *)
(* byte follows a lead byte.                                               *)
VisibleLen(b) == Cardinality({i \in 1..Len(b) : b[i] # "C"})

WellFormed(b) ==
    \A i \in 1..Len(b) :
        /\ b[i] = "L2" => (i < Len(b) /\ b[i + 1] = "C")
        /\ b[i] = "C" => (i > 1 /\ b[i - 1] = "L2")

(* C7: the form of a message displayed by chooseErrorGroup never exceeds   *)
(* 80 characters, never ends its retained prefix in the middle of a        *)
(* multi-byte character, and is the message itself when the message is     *)
(* within the limit.                                                       *)
C7_TruncationKeepsCharacters ==
    \A j \in 1..Len(shown) :
        LET m == activeErrorGroups[j].message
            d == shown[j]
        IN  /\ VisibleLen(d) <= MaxVisible
            /\ WellFormed(d)
            /\ VisibleLen(m) <= MaxVisible => d = m

(* The branch whose content a diff command compares with the target: the   *)
(* three-dot form names HEAD, the two-dot form compares the working tree;  *)
(* both are the branch checked out.                                        *)
ComparedBranch(e) ==
    IF IsThreeDot(e) /\ e.args[Len(e.args)] # "HEAD"
    THEN e.args[Len(e.args)]
    ELSE headBranch

(* C8: the diff (stat and full) is computed between the target reference   *)
(* and the resolved source branch, --branch when given and the current     *)
(* branch otherwise, also when --branch names a branch that is not checked *)
(* out.                                                                    *)
C8_DiffOfNamedBranch ==
    \A i \in 1..Len(log) :
        IsDiffCmd(log[i]) => ComparedBranch(log[i]) = branchName

IsBestEffort(e) == e.op = "git" /\ e.args[1] \in {"fetch", "pull"}

IsWarning(e) == e.op = "print" /\ e.args[1] \in {"Warning: git fetch failed",
                                                  "Warning: git pull failed"}

(* C9: a failure of git fetch or git pull in checkoutBranch never aborts   *)
(* the run and is followed by a visible warning; only a failure of the     *)
(* checkout command makes checkoutBranch return an error.                  *)
C9_BestEffortFailuresWarn ==
    /\ \A i \in 1..Len(log) :
         (IsBestEffort(log[i]) /\ ~log[i].ok) =>
            /\ i < Len(log)
            /\ IsWarning(log[i + 1])
            /\ ~(pc = "exited" /\ NoLaterStep(i))
    /\ (err.ctx # <<>> /\ err.ctx[1] = "error checking out branch") =>
         /\ Steps[Len(Steps)].args[1] = "checkout"
         /\ ~Steps[Len(Steps)].ok

(* A step that failed: the operation reported an error (that the output    *)
(* file does not exist is no failure of os.Stat's caller).                 *)
StepFailed(e) == ~e.ok /\ ~(e.op = "stat" /\ ~IsStatGit(e))

(* The failures the run goes on after: the reference check and the         *)
(* three-dot diffs of getDiff, git fetch and git pull, and the opener.     *)
Tolerated(e) ==
    \/ IsVerify(e)
    \/ IsDiffCmd(e) /\ IsThreeDot(e)
    \/ IsBestEffort(e)
    \/ e.op = "open"

(* C10: the process exits 0 if and only if no step returned an unrecovered *)
(* error, and 1 otherwise; once a step other than the two diff fallbacks,  *)
(* git fetch, git pull and the opener fails, no later step is executed.    *)
C10_ExitCodeAndAbort ==
    /\ pc = "exited" =>
         /\ exitCode \in {0, 1}
         /\ exitCode = 0 <=> err = NoErr
         /\ exitCode = 0 =>
              \A i \in 1..Len(Steps) : StepFailed(Steps[i]) => Tolerated(Steps[i])
    /\ \A i \in 1..Len(Steps) :
         (StepFailed(Steps[i]) /\ ~Tolerated(Steps[i])) =>
            /\ i = Len(Steps)
            /\ pc = "exited"
            /\ exitCode = 1

IsDetailRequest(e) == e.op = "http" /\ e.args[3] = "/error-groups/"

DetailRequests == {i \in 1..Len(log) : IsDetailRequest(log[i])}

InList(x, list) == \E j \in 1..Len(list) : list[j] = x

(* C11: at most one crash-detail request is made per run; it names the     *)
(* application and the error group that were selected; its result is the   *)
(* first element of the list returned; when the list returned is empty the *)
(* call fails with an error, the run exits 1 and the assistant is never    *)
(* invoked.                                                                *)
C11_OneDetailRequestFirstElement ==
    /\ Cardinality(DetailRequests) <= 1
    /\ \A i \in DetailRequests :
         /\ raygunApp # NoApp
         /\ InList(selectedErrorGroup, activeErrorGroups)
         /\ log[i].args[2] = raygunApp.identifier
         /\ log[i].args[4] = selectedErrorGroup.identifier
         /\ (log[i].ok /\ details # <<>>) =>
                /\ errorDetail = details[1]
                /\ err.msg # "no error details found"
         /\ (log[i].ok /\ details = <<>>) =>
                /\ errorDetail = NoDetail
                /\ err.msg = "no error details found"
                /\ pc = "exited"
                /\ exitCode = 1
                /\ NoLaterStep(i)
                /\ ~HasEvent("claude")

(* C11 witness: the crash service answered the detail request with two     *)
(* different records and the first one is the crash analysed.              *)
C11_Witness ==
    /\ DetailRequests # {}
    /\ Len(details) = 2
    /\ details[1] # details[2]
    /\ errorDetail = details[1]
    /\ HasEvent("claude")

IsOutputStat(e) == e.op = "stat" /\ ~IsStatGit(e)

AssistantSucceeded == \E i \in 1..Len(log) : log[i].op = "claude" /\ log[i].ok

(* C12: after the assistant exited successfully the output file is looked  *)
(* for once, right then; the opener is invoked if and only if the file was *)
(* found, on that file; and whatever the opener returns, the invoking      *)
(* function returns nil and the run exits 0, a failed opener leaving only  *)
(* a warning.                                                              *)
C12_OpenerIffOutputExists ==
    /\ (AssistantSucceeded /\ pc = "exited") =>
          /\ \E j \in 1..Len(log) : IsOutputStat(log[j])
          /\ exitCode = 0
          /\ err = NoErr
    /\ \A j \in 1..Len(log) :
          IsOutputStat(log[j]) =>
             /\ j > 1 /\ log[j - 1].op = "claude" /\ log[j - 1].ok
             /\ \A k \in 1..Len(log) : IsOutputStat(log[k]) => k = j
             /\ log[j].ok <=> HasEvent("open")
    /\ \A k \in 1..Len(log) :
          log[k].op = "open" =>
             /\ k > 2 /\ IsOutputStat(log[k - 2]) /\ log[k - 2].ok
             /\ log[k].args[1] = log[k - 2].args[1]
             /\ \A m \in 1..Len(log) : log[m].op = "open" => m = k
             /\ pc = "exited" /\ exitCode = 0 /\ err = NoErr
             /\ ~log[k].ok => (k < Len(log) /\ log[k + 1].op = "print")

(* C12 witness: the output file was there, the opener failed, and the run  *)
(* has exited 0.                                                           *)
C12_Witness ==
    /\ pc = "exited"
    /\ exitCode = 0
    /\ \E k \in 1..Len(log) : log[k].op = "open" /\ ~log[k].ok
    /\ Printed("Warning: could not open output file")

IsApplicationsRequest(e) == e.op = "http" /\ e.args[1] = "/applications?count="

(* chooseRaygunApplication has its list: the request succeeded and the     *)
(* list decoded is not empty.                                              *)
ApplicationsAvailable ==
    /\ \E i \in 1..Len(log) : IsApplicationsRequest(log[i]) /\ log[i].ok
    /\ applications # <<>>

ProjectPrompt == Println("Select project number: ")

(* The read of the project prompt: it is the interaction that follows it.  *)
ProjectRead ==
    \E i \in 1..(Len(log) - 1) : log[i] = ProjectPrompt /\ log[i + 1].op = "stdin"

NameKnown == \E j \in 1..Len(applications) : applications[j].name = raygunProject

(* C13: chooseRaygunApplication displays the list and reads standard input *)
(* only when no project name was given, and, once it has a non-empty list  *)
(* of applications, always then; with a project name it returns an         *)
(* application of the list whose name is that name, and when the list has  *)
(* none the run fails with the 'not found' error without prompting.        *)
C13_PromptIffNoProjectName ==
    /\ (Printed("Available Raygun projects:") \/ Printed("Select project number: ")
          \/ ProjectRead \/ scan.of = "project") => raygunProject = ""
    /\ ApplicationsAvailable =>
         IF raygunProject = ""
         THEN /\ Printed("Available Raygun projects:")
              /\ Printed("Select project number: ")
              /\ ProjectRead \/ pc = "er_app_read"
         ELSE /\ ~Printed("Available Raygun projects:")
              /\ ~Printed("Select project number: ")
              /\ IF NameKnown
                 THEN /\ raygunApp.name = raygunProject
                      /\ InList(raygunApp, applications)
                      /\ err.msg # "raygun project not found"
                      /\ Printed("Selected raygun project")
                 ELSE /\ raygunApp = NoApp
                      /\ err.msg = "raygun project not found"
                      /\ pc = "exited"
                      /\ exitCode = 1
                      /\ ~HasEvent("stdin")
                      /\ \A i \in 1..Len(log) :
                            IsApplicationsRequest(log[i]) => NoLaterStep(i)

(* C13 witness: --raygun-project names the second of two applications and  *)
(* that one is returned, with no prompt.                                   *)
C13_Witness ==
    /\ raygunProject = "A"
    /\ Len(applications) = 2
    /\ applications[1].name = "B"
    /\ raygunApp = applications[2]
    /\ ~HasEvent("stdin")
    /\ pc = "er_groups"

AssistantRuns == {i \in 1..Len(log) : log[i].op = "claude"}

(* What the assistant is given comes from a step that succeeded: the full  *)
(* diff in the review pipeline, the crash detail in the errors pipeline.   *)
InputGathered(i) ==
    \E j \in 1..(i - 1) :
        /\ log[j].ok
        /\ IF cmd = "review" THEN IsDiffCmd(log[j]) /\ ~IsStatCmd(log[j])
           ELSE IsDetailRequest(log[j])

(* C14: in a run of either pipeline the assistant is started at most once; *)
(* every step before it succeeded (the reference check, the three-dot      *)
(* diffs, git fetch and git pull aside), the prompt was rendered right     *)
(* before it and its input was gathered; nothing runs until it has exited; *)
(* and when it exits non-zero the invoking function returns an error, the  *)
(* opener is never invoked and the run exits 1.                            *)
C14_AssistantOnceAfterGathering ==
    /\ Cardinality(AssistantRuns) <= 1
    /\ \A i \in AssistantRuns :
         /\ \A j \in 1..(i - 1) : StepFailed(log[j]) => Tolerated(log[j])
         /\ i > 1 /\ log[i - 1] = RenderPrompt(TRUE)
         /\ InputGathered(i)
         /\ \A j \in (i + 1)..Len(log) :
               log[j].op \notin {"print", "stderr"} => log[i].ok
         /\ ~log[i].ok =>
               /\ pc = "exited"
               /\ exitCode = 1
               /\ err.ctx # <<>>
               /\ err.ctx[Len(err.ctx)] = "failed to run claude"
               /\ ~HasEvent("open")
               /\ NoLaterStep(i)

HttpRequests == {i \in 1..Len(log) : log[i].op = "http"}

(* The endpoint a request is for: 1 the applications, 2 the error groups   *)
(* of an application, 3 the errors of an error group.                      *)
Endpoint(e) ==
    IF IsApplicationsRequest(e) THEN 1
    ELSE IF IsDetailRequest(e) THEN 3
    ELSE 2

(* C15: in a run of the errors pipeline each of the three endpoints is     *)
(* requested at most once, in the order applications, error groups, error  *)
(* detail, each request but the first right after the success of the one   *)
(* before it in that order; a request that fails (transport error, status  *)
(* other than 200, or a body that does not decode) is not repeated and is  *)
(* the last step of the run.                                               *)
C15_EachEndpointOnceInOrder ==
    /\ \A i \in HttpRequests, j \in HttpRequests :
          i < j => /\ Endpoint(log[i]) < Endpoint(log[j])
                   /\ log[i].ok
    /\ \A j \in HttpRequests :
          Endpoint(log[j]) > 1 =>
             \E i \in HttpRequests :
                i < j /\ Endpoint(log[i]) = Endpoint(log[j]) - 1 /\ log[i].ok
    /\ \A i \in HttpRequests :
          ~log[i].ok => /\ pc = "exited"
                        /\ exitCode = 1
                        /\ NoLaterStep(i)

(* C15 witness: the three requests were made and the third one got an      *)
(* answer that does not decode; the run has ended there.                   *)
C15_Witness ==
    /\ Cardinality(HttpRequests) = 3
    /\ \E i \in HttpRequests :
          /\ Endpoint(log[i]) = 3
          /\ ~log[i].ok
          /\ log[i].code = StatusOK
    /\ pc = "exited"

StdinReads == {i \in 1..Len(log) : log[i].op = "stdin"}

GroupPrompt == Println("Select error group number: ")

IsPrompt(e) == e \in {ProjectPrompt, GroupPrompt}

Occurrences(e) == Cardinality({i \in 1..Len(log) : log[i] = e})

(* The line the selector has just read selects nothing: it is no number,   *)
(* or a number outside 1..N.                                               *)
InvalidInput ==
    /\ scan.of # ""
    /\ ~\E k \in 1..Len(Presented) : ParsesAs(scan.input, k)

(* C16: each selector prompts once and reads standard input once, right    *)
(* after its prompt; the project prompt comes before the error-group       *)
(* prompt; a run reads at most twice; and the first line that is no number *)
(* or is out of range ends the run with exit code 1, with no other prompt  *)
(* and no other read.                                                      *)
C16_OneReadPerSelector ==
    /\ Cardinality(StdinReads) <= 2
    /\ Occurrences(ProjectPrompt) <= 1
    /\ Occurrences(GroupPrompt) <= 1
    /\ \A i \in StdinReads : i > 1 /\ IsPrompt(log[i - 1])
    /\ \A i \in 1..Len(log) :
          IsPrompt(log[i]) =>
             IF i = Len(log) THEN pc \in {"er_app_read", "er_group_read"}
             ELSE log[i + 1].op = "stdin"
    /\ \A i \in 1..Len(log), j \in 1..Len(log) :
          (log[i] = ProjectPrompt /\ log[j] = GroupPrompt) => i < j
    /\ \A i \in StdinReads :
          ~log[i].ok => pc = "exited" /\ exitCode = 1 /\ NoLaterStep(i)
    /\ InvalidInput =>
          /\ pc = "exited"
          /\ exitCode = 1
          /\ Steps[Len(Steps)].op = "stdin"
          /\ log[Len(log)].op = "stderr"

(* C16 witness: the project was selected, then a number out of range was   *)
(* typed at the error-group prompt; the run has ended after two reads.     *)
C16_Witness ==
    /\ Cardinality(StdinReads) = 2
    /\ scan.of = "group"
    /\ scan.ok
    /\ scan.val > Len(activeErrorGroups)
    /\ pc = "exited"
    /\ exitCode = 1

(* The token of the run: --token, else RAYGUN_TOKEN. *)
TokenGiven == IF raygunToken # "" THEN raygunToken ELSE envToken

RepoCheckPassedBefore(i) ==
    \E j \in 1..(i - 1) : IsStatGit(log[j]) /\ log[j].args[2] = "exists"

IsCheckout(e) == e.op = "git" /\ e.args[1] = "checkout"

NeedsTokenAndRepo(e) == e.op = "http" \/ IsCheckout(e) \/ e.op = "claude"

(* C17: in the errors pipeline every request to the crash service, every   *)
(* git checkout and every start of the assistant comes after a non-empty   *)
(* token was obtained (--token, else RAYGUN_TOKEN; the requests carry it)  *)
(* and after the repository check found the .git entry; git checkout runs  *)
(* only when --branch is not empty, on that branch, after the crash detail *)
(* was fetched and before the assistant; with --branch the assistant is    *)
(* started only after the checkout succeeded.                              *)
C17_TokenAndRepoBeforeEffects ==
    cmd = "errors" =>
        /\ \A i \in 1..Len(log) :
              NeedsTokenAndRepo(log[i]) =>
                 /\ TokenGiven # ""
                 /\ token = TokenGiven
                 /\ RepoCheckPassedBefore(i)
        /\ \A i \in HttpRequests :
              log[i].args[Len(log[i].args)] = TokenGiven
        /\ \A i \in 1..Len(log) :
              IsCheckout(log[i]) =>
                 /\ branch # ""
                 /\ log[i].args[2] = branch
                 /\ \E j \in 1..(i - 1) : IsDetailRequest(log[j]) /\ log[j].ok
                 /\ \A j \in AssistantRuns : i < j
        /\ \A j \in AssistantRuns :
              branch # "" =>
                 \E i \in 1..(j - 1) : IsCheckout(log[i]) /\ log[i].ok

====
